---------------------------- MODULE Spec2Model ----------------------------
(***************************************************************************)
(* Quantum-Hamiltonian-Simulation: the two notebooks as state machines.    *)
(*                                                                         *)
(*   - the Grover-Rudolph notebook (src/unnamed/part_000): GRA(n, dist,    *)
(*     a, b) and the demo cell that measures the returned circuit;         *)
(*   - main.ipynb: binary_approx(n, k) and the stub KWA(mu, sigma, k, N).  *)
(*                                                                         *)
(* Real numbers are exact rationals <<num, den>> in lowest terms.  The     *)
(* interval [a, b] is cut into the 2^(n+1) cells of the finest bisection   *)
(* the code integrates over (the numerator interval of level n); dist is   *)
(* constant on a cell and integrate.quad is the exact integral.  An angle  *)
(* is kept symbolically as mult * arccos(sqrt(cos2)).                      *)
(***************************************************************************)
EXTENDS Integers, Sequences, FiniteSets, TLC

VARIABLES
    nb,       \* which notebook runs: "GRA" or "main"
    pc,       \* position in the running cell
    n,        \* GRA: number of qubits
    dist,     \* GRA: the distribution, cell -> density (in units of 1/Resolution)
    a,        \* GRA: lower end of the range
    b,        \* GRA: upper end of the range
    m,        \* GRA: the outer loop variable
    F,        \* GRA: cos^2(angle) vector
    T,        \* GRA: angle vector
    P,        \* GRA: "probability" vector
    qc,       \* the circuit under construction
    ret,      \* the value returned by the last call
    psi,      \* demo cell: the probability of each basis state before measuring
    counts,   \* demo cell: outcome -> ideal relative frequency
    globals,  \* main.ipynb: the notebook's global names
    frame,    \* main.ipynb: the locals of the running call
    state     \* main.ipynb: the statevector the last cell computed

vars == <<nb, pc, n, dist, a, b, m, F, T, P, qc, ret, psi, counts, globals, frame, state>>

-----------------------------------------------------------------------------
(* Bounds of the model *)

\* largest number of qubits GRA is called with
MaxN == 3
\* largest density value of dist, in units of 1/Resolution
MaxH == 2
\* largest denominator of the real argument of binary_approx
MaxDen == 6
\* largest number of bits binary_approx is asked for (besides the recorded run)
MaxK == 4

\* largest |mu| angle is called with
MaxMu == 2
\* largest truncation n of the sums of f
MaxTerms == 1
\* largest exponent (j - mu)^2/sigma^2 of a term of f, in units of 1/sigma^2
MaxExp == 16

\* densities are multiples of 1/Resolution
Resolution == 2^(MaxN+1)
\* lower ends of the range GRA is called with
Origins == {-1, 0}

-----------------------------------------------------------------------------
(* Exact rationals *)

Abs(x) == IF x < 0 THEN -x ELSE x

RECURSIVE GCD(_, _)
GCD(x, y) == IF y = 0 THEN x ELSE GCD(y, x % y)

\* the quotient p/q of two integers, q # 0, in lowest terms with den > 0
Frac(p, q) ==
    LET g == GCD(Abs(p), Abs(q))
        s == IF q < 0 THEN -1 ELSE 1
    IN  <<(s * p) \div g, (s * q) \div g>>

RZero == <<0, 1>>
ROne == <<1, 1>>
\* a value that is no rational the model can name
Unknown == <<0, 0>>

IsUnknown(x) == x[2] = 0
RMul(x, y) == IF IsUnknown(x) \/ IsUnknown(y) THEN Unknown
              ELSE Frac(x[1] * y[1], x[2] * y[2])
RAdd(x, y) == IF IsUnknown(x) \/ IsUnknown(y) THEN Unknown
              ELSE IF x[1] = 0 THEN y
              ELSE IF y[1] = 0 THEN x
              ELSE Frac(x[1] * y[2] + y[1] * x[2], x[2] * y[2])
RSub(x, y) == IF IsUnknown(x) \/ IsUnknown(y) THEN Unknown
              ELSE Frac(x[1] * y[2] - y[1] * x[2], x[2] * y[2])
\* x / y for y # 0
RDiv(x, y) == Frac(x[1] * y[2], x[2] * y[1])
RLess(x, y) == x[1] * y[2] < y[1] * x[2]
RLeq(x, y) == x[1] * y[2] <= y[1] * x[2]

-----------------------------------------------------------------------------
(* numpy / scipy helpers used by GRA *)

\* integrate.quad(dist, lo, hi)[0]: the integral of d over [lo, hi]
RECURSIVE QuadUnits(_, _, _)
QuadUnits(d, lo, hi) == IF lo >= hi THEN 0 ELSE d[lo] + QuadUnits(d, lo + 1, hi)

Quad(d, lo, hi) == Frac(QuadUnits(d, lo, hi), Resolution)

NaN == [mult |-> 0, cos2 |-> Unknown]
NoAngle == [mult |-> 0, cos2 |-> ROne]

\* arccos(sqrt(f)): nan outside [0, 1]
ArcCosSqrt(f) ==
    IF RLess(f, RZero) \/ RLess(ROne, f) THEN NaN ELSE [mult |-> 1, cos2 |-> f]

\* 2*t
Twice(t) == [t EXCEPT !.mult = 2 * t.mult]

-----------------------------------------------------------------------------
(* GRA: the pre-computation of F, T and P *)

\* Entry with the numerator integrated up to the end of the whole interval
Entry_WholeNumerator(d, aa, R, mm, i) ==
    LET num_LB == aa + (R \div 2^mm) * i
        num_UB == aa + (R \div 2^mm) * (i+1)
        den_LB == aa + (R \div 2^mm) * i
        den_UB == aa + (R \div 2^mm) * (i+1)
        num    == Quad(d, num_LB, num_UB)
        den    == Quad(d, den_LB, den_UB)
    IN  IF den = RZero
        THEN [ok |-> FALSE, f |-> Unknown, t |-> NaN, p |-> Unknown]
        ELSE LET f == RDiv(num, den)
             IN  [ok |-> TRUE, f |-> f, t |-> ArcCosSqrt(f), p |-> den]

\* Entry with a division that yields nan instead of failing
Entry_NoRaise(d, aa, R, mm, i) ==
    LET lo  == aa + (R \div 2^mm) * i
        num == Quad(d, lo, lo + (R \div 2^(mm+1)))
        den == Quad(d, lo, aa + (R \div 2^mm) * (i+1))
    IN  IF den = RZero
        THEN [ok |-> TRUE, f |-> Unknown, t |-> NaN, p |-> den]
        ELSE LET f == RDiv(num, den)
             IN  [ok |-> TRUE, f |-> f, t |-> ArcCosSqrt(f), p |-> den]

\* Entry with p taken over the numerator's interval
Entry_StoresNumerator(d, aa, R, mm, i) ==
    LET lo  == aa + (R \div 2^mm) * i
        num == Quad(d, lo, lo + (R \div 2^(mm+1)))
        den == Quad(d, lo, aa + (R \div 2^mm) * (i+1))
    IN  IF den = RZero
        THEN [ok |-> FALSE, f |-> Unknown, t |-> NaN, p |-> Unknown]
        ELSE LET f == RDiv(num, den)
             IN  [ok |-> TRUE, f |-> f, t |-> ArcCosSqrt(f), p |-> num]

\* Entry with the numerator counted twice
Entry_DoubledRatio(d, aa, R, mm, i) ==
    LET lo  == aa + (R \div 2^mm) * i
        num == Quad(d, lo, lo + (R \div 2^(mm+1)))
        den == Quad(d, lo, aa + (R \div 2^mm) * (i+1))
    IN  IF den = RZero
        THEN [ok |-> FALSE, f |-> Unknown, t |-> NaN, p |-> Unknown]
        ELSE LET f == RDiv(RAdd(num, num), den)
             IN  [ok |-> TRUE, f |-> f, t |-> ArcCosSqrt(f), p |-> den]

\* one pass of the inner loop body for (m, i): the entry, or the division by zero
Entry(d, aa, R, mm, i) ==
    LET num_LB == aa + (R \div 2^mm) * i
        num_UB == num_LB + (R \div 2^(mm+1))
        den_LB == aa + (R \div 2^mm) * i
        den_UB == aa + (R \div 2^mm) * (i+1)
        num    == Quad(d, num_LB, num_UB)
        den    == Quad(d, den_LB, den_UB)
    IN  IF den = RZero
        THEN [ok |-> FALSE, f |-> Unknown, t |-> NaN, p |-> Unknown]
        ELSE LET f == RDiv(num, den)
             IN  [ok |-> TRUE, f |-> f, t |-> ArcCosSqrt(f), p |-> den]

\* the number of passes of the inner loop of level mm: range(0, 2**m)
InnerCount(mm) == 2^mm

\* the inner loop from pass i on; acc holds the rows appended so far
RECURSIVE InnerLoop(_, _, _, _, _, _)
InnerLoop(d, aa, R, mm, i, acc) ==
    IF i >= InnerCount(mm) THEN acc
    ELSE LET e == Entry(d, aa, R, mm, i)
         IN  IF ~e.ok THEN [acc EXCEPT !.ok = FALSE]
             ELSE InnerLoop(d, aa, R, mm, i + 1,
                            [ok |-> TRUE,
                             F |-> Append(acc.F, e.f),
                             T |-> Append(acc.T, e.t),
                             P |-> Append(acc.P, e.p)])

EmptyRows == [ok |-> TRUE, F |-> <<>>, T |-> <<>>, P |-> <<>>]

\* LastLevel with the outer loop written range(0, n)
LastLevel_Short(nn) == nn - 1

\* the last value of the outer loop variable: range(0, n+1)
LastLevel(nn) == nn

NoCircuit == [qubits |-> 0, clbits |-> 0, gates |-> <<>>]
NoFrame == [fn |-> "none"]
NoGlobals == <<>>
NoState == <<>>
None == "None"

\* piecewise constant densities: height h2 on the cells of [c1, c2), h1 elsewhere
StepDist(lo, hi, c1, c2, h1, h2) ==
    [x \in lo..(hi - 1) |-> IF c1 <= x /\ x < c2 THEN h2 ELSE h1]

InitGRA ==
    /\ nb = "GRA"
    /\ pc = "pre"
    /\ n \in 1..MaxN
    /\ a \in Origins
    /\ b = a + 2^(n+1)
    /\ \E c1 \in a..b, c2 \in a..b, h1 \in 0..MaxH, h2 \in 0..MaxH :
          /\ c1 <= c2
          /\ dist = StepDist(a, b, c1, c2, h1, h2)
    /\ m = 0
    /\ F = <<>>
    /\ T = <<>>
    /\ P = <<>>
    /\ qc = NoCircuit
    /\ ret = None
    /\ psi = <<>>
    /\ counts = <<>>
    /\ globals = NoGlobals
    /\ frame = NoFrame
    /\ state = NoState

\* the outer loop `for m in range(0, n+1)` from pass mm on; acc holds F, T and P
RECURSIVE OuterLoop(_, _, _, _, _, _)
OuterLoop(d, aa, R, nn, mm, acc) ==
    IF mm > LastLevel(nn) THEN acc
    ELSE LET rows == InnerLoop(d, aa, R, mm, 0, EmptyRows)
             nxt  == [ok |-> rows.ok,
                      F |-> Append(acc.F, rows.F),
                      T |-> Append(acc.T, rows.T),
                      P |-> Append(acc.P, rows.P)]
         IN  IF rows.ok THEN OuterLoop(d, aa, R, nn, mm + 1, nxt) ELSE nxt

\* R = b - a and the two loops: F, T and P, or the division by zero that ends them
Tables(d, aa, bb, nn) == OuterLoop(d, aa, bb - aa, nn, 0, EmptyRows)

\* the pre-computation of F, T and P
GRA_Precompute ==
    /\ nb = "GRA"
    /\ pc = "pre"
    /\ LET t == Tables(dist, a, b, n)
       IN  /\ F' = t.F
           /\ T' = t.T
           /\ P' = t.P
           /\ pc' = IF t.ok THEN "construct" ELSE "raised"
    /\ UNCHANGED <<nb, n, dist, a, b, m, qc, ret, psi, counts, globals, frame, state>>

-----------------------------------------------------------------------------
(* GRA: the construction of the circuit *)

Gate(kind, theta, ctrl, tgt) ==
    [kind |-> kind, theta |-> theta, ctrl |-> ctrl, tgt |-> tgt]

\* Python's x & y on non-negative integers
RECURSIVE BitAnd(_, _)
BitAnd(x, y) ==
    IF x = 0 \/ y = 0 THEN 0
    ELSE (x % 2) * (y % 2) + 2 * BitAnd(x \div 2, y \div 2)

\* the test `i & int(2**(j)) == False`: & binds tighter than ==, and 0 == False
BitIsClear(i, j) == BitAnd(i, 2^j) = 0

\* XTarget with the X gate of pass j put on qubit j
XTarget_Forward(mm, j) == j

\* the qubit the X gate of pass j acts on
XTarget(mm, j) == mm - j - 1

\* the loop `for j in range(0, m)` around a rotation, from pass j on
RECURSIVE XLoop(_, _, _)
XLoop(mm, i, j) ==
    IF j >= mm THEN <<>>
    ELSE (IF BitIsClear(i, j)
          THEN <<Gate("x", NoAngle, <<>>, <<XTarget(mm, j)>>)>>
          ELSE <<>>) \o XLoop(mm, i, j + 1)

\* control_qubits of level mm: qr[0..m-1]
ControlQubits(mm) == [q \in 1..mm |-> q - 1]

\* the rotation of pass i of level mm
Rotation(Tm, mm, i) == Gate("mcrx", Twice(Tm[i + 1]), ControlQubits(mm), <<mm>>)

\* the loop `for i in range(0, 2**m)` of level mm, from pass i on
RECURSIVE RotationLoop(_, _, _)
RotationLoop(Tm, mm, i) ==
    IF i >= 2^mm THEN <<>>
    ELSE XLoop(mm, i, 0) \o <<Rotation(Tm, mm, i)>> \o XLoop(mm, i, 0)
         \o RotationLoop(Tm, mm, i + 1)

\* LevelGates with the barrier emitted at the end of the level
LevelGates_BarrierLast(Tm, mm) ==
    RotationLoop(Tm, mm, 0) \o <<Gate("barrier", NoAngle, <<>>, <<>>)>>

\* LevelGates with a level of equal angles merged into one uncontrolled rotation
LevelGates_Merged(Tm, mm) ==
    IF \A i \in 1..Len(Tm) : Tm[i] = Tm[1]
    THEN <<Gate("barrier", NoAngle, <<>>, <<>>), Gate("rx", Twice(Tm[1]), <<>>, <<mm>>)>>
    ELSE <<Gate("barrier", NoAngle, <<>>, <<>>)>> \o RotationLoop(Tm, mm, 0)

\* everything one pass of `for m in range(1, n)` emits
LevelGates(Tm, mm) ==
    <<Gate("barrier", NoAngle, <<>>, <<>>)>> \o RotationLoop(Tm, mm, 0)

\* the first gate: qc.rx(2*T[0][0], 0)
FirstGate(TT) == Gate("rx", Twice(TT[1][1]), <<>>, <<0>>)

\* SwapCount rounded up instead of down
SwapCount_Ceil(nn) == (nn + 1) \div 2

\* the number of swaps of the final stage, by the parity of n
SwapCount(nn) == IF nn % 2 = 0 THEN nn \div 2 ELSE (nn - 1) \div 2

RECURSIVE SwapLoop(_, _)
SwapLoop(nn, i) ==
    IF i >= SwapCount(nn) THEN <<>>
    ELSE <<Gate("swap", NoAngle, <<>>, <<i, nn - i - 1>>)>> \o SwapLoop(nn, i + 1)

\* SwapStage with the final swaps left out
SwapStage_None(nn) == <<>>

SwapStage(nn) == SwapLoop(nn, 0)

\* registers, circuit and the first rotation
GRA_Construct ==
    /\ nb = "GRA"
    /\ pc = "construct"
    /\ qc' = [qubits |-> n, clbits |-> n, gates |-> <<FirstGate(T)>>]
    /\ m' = 1
    /\ pc' = "levels"
    /\ UNCHANGED <<nb, n, dist, a, b, F, T, P, ret, psi, counts, globals, frame, state>>

\* one pass of `for m in range(1, n)`
GRA_Level ==
    /\ nb = "GRA"
    /\ pc = "levels"
    /\ m < n
    /\ qc' = [qc EXCEPT !.gates = @ \o LevelGates(T[m + 1], m)]
    /\ m' = m + 1
    /\ UNCHANGED <<nb, pc, n, dist, a, b, F, T, P, ret, psi, counts, globals, frame, state>>

\* the final swaps and `return (qc, P)`
GRA_Return ==
    /\ nb = "GRA"
    /\ pc = "levels"
    /\ m >= n
    /\ qc' = [qc EXCEPT !.gates = @ \o SwapStage(n)]
    /\ ret' = <<qc', P>>
    /\ pc' = "returned"
    /\ UNCHANGED <<nb, n, dist, a, b, m, F, T, P, psi, counts, globals, frame, state>>

-----------------------------------------------------------------------------
(* The demo cell: measuring the circuit GRA returned.  The circuit runs    *)
(* from the all-zero state, and a state is kept as the probability of each *)
(* basis state x (entry x+1 of a sequence), bit q of x being qubit q.  A    *)
(* rotation rx(theta) acts on a target in state 0 and leaves it 0 with     *)
(* probability cos^2(theta/2); what it does to a target that may be 1 is   *)
(* not modelled (Unknown).                                                 *)

Bit(x, q) == (x \div 2^q) % 2
Flip(x, q) == IF Bit(x, q) = 1 THEN x - 2^q ELSE x + 2^q
SwapBits(x, q1, q2) ==
    IF Bit(x, q1) = Bit(x, q2) THEN x ELSE Flip(Flip(x, q1), q2)

\* cos^2(theta/2), rational only for theta = 2*arccos(sqrt(f))
Cos2Half(theta) == IF theta.mult = 2 THEN theta.cos2 ELSE Unknown

AllOnes(x, ctrl) == \A k \in 1..Len(ctrl) : Bit(x, ctrl[k]) = 1

\* the probability of basis state x after a rotation
RotationProb(s, g, x) ==
    LET t == g.tgt[1]
        c == Cos2Half(g.theta)
        zero == IF Bit(x, t) = 0 THEN x ELSE Flip(x, t)
        one  == Flip(zero, t)
    IN  IF ~AllOnes(x, g.ctrl) THEN s[x + 1]
        ELSE IF s[one + 1] # RZero THEN Unknown
        ELSE IF x = zero THEN RMul(c, s[zero + 1])
        ELSE RMul(RSub(ROne, c), s[zero + 1])

\* the probability of basis state x after gate g; s[y + 1] is that of y before it
GateProb(s, g, x) ==
    CASE g.kind = "x"    -> s[Flip(x, g.tgt[1]) + 1]
      [] g.kind = "swap" -> s[SwapBits(x, g.tgt[1], g.tgt[2]) + 1]
      [] g.kind \in {"rx", "mcrx"} -> RotationProb(s, g, x)
      [] OTHER -> s[x + 1]

RECURSIVE ApplyFrom(_, _, _)
ApplyFrom(s, g, x) ==
    IF x >= Len(s) THEN <<>> ELSE <<GateProb(s, g, x)>> \o ApplyFrom(s, g, x + 1)

ApplyGate(s, g) == ApplyFrom(s, g, 0)

RECURSIVE RunFrom(_, _, _)
RunFrom(s, gates, k) ==
    IF k > Len(gates) THEN s ELSE RunFrom(ApplyGate(s, gates[k]), gates, k + 1)

RECURSIVE ZeroFrom(_, _)
ZeroFrom(nq, x) ==
    IF x >= 2^nq THEN <<>> ELSE <<IF x = 0 THEN ROne ELSE RZero>> \o ZeroFrom(nq, x + 1)

\* all qubits 0
ZeroState(nq) == ZeroFrom(nq, 0)

\* the state the circuit's gates leave
Run(c) == RunFrom(ZeroState(c.qubits), c.gates, 1)

\* qc.measure(qr, cr): qubit q into classical bit q
MeasureAll(nq) == [q \in 1..nq |-> Gate("measure", NoAngle, <<>>, <<q - 1, q - 1>>)]

\* the integer a basis state is counted under: classical bit c has weight 2^c
RECURSIVE OutcomeFrom(_, _, _)
OutcomeFrom(x, gates, k) ==
    IF k > Len(gates) THEN 0
    ELSE (IF gates[k].kind = "measure"
          THEN Bit(x, gates[k].tgt[1]) * 2^(gates[k].tgt[2])
          ELSE 0) + OutcomeFrom(x, gates, k + 1)

RECURSIVE SumOver(_, _)
SumOver(s, X) ==
    IF X = {} THEN RZero
    ELSE LET x == CHOOSE y \in X : TRUE
         IN  RAdd(s[x + 1], SumOver(s, X \ {x}))

\* the relative frequency of every outcome over unboundedly many shots, for a
\* circuit that leaves state s before the measurements meas
Histogram(s, meas, nc) ==
    [o \in 0..(2^nc - 1) |->
        SumOver(s, {x \in 0..(Len(s) - 1) : OutcomeFrom(x, meas, 1) = o})]

\* qc.measure(qr, cr) and plot_histogram(get_histogram(qc))
Demo_Measure ==
    /\ nb = "GRA"
    /\ pc = "returned"
    /\ qc' = [qc EXCEPT !.gates = @ \o MeasureAll(n)]
    /\ psi' = Run(qc)
    /\ counts' = Histogram(psi', MeasureAll(n), qc.clbits)
    /\ pc' = "measured"
    /\ UNCHANGED <<nb, n, dist, a, b, m, F, T, P, ret, globals, frame, state>>

-----------------------------------------------------------------------------
(* main.ipynb: the inputs cell, the registers, binary_approx and KWA *)

\* the cell `mu = 0 ... sigma_size = 1`
Inputs == [mu |-> 0, sigma |-> 1, k |-> 3, N |-> 3, mu_size |-> 1, sigma_size |-> 1]

\* QuantumCircuit(alpha_register, mu_register, sigma_register, N_register, res_register)
RegisterCircuit(g) ==
    [qubits |-> g.k + g.mu_size + g.sigma_size + g.N + g.N, clbits |-> 0, gates |-> <<>>]

\* alpha as the example cell printed it, 0.11143872..., and its precision
AlphaNum == 11143872
AlphaDen == 100000000
Precision == 6
Alpha == Frac(AlphaNum, AlphaDen)

\* the reals binary_approx is called with: inside, on the ends of and outside [0, 1]
RealArgs == {Frac(p, q) : p \in (-1)..(MaxDen + 1), q \in 1..MaxDen}

InitMain ==
    /\ nb = "main"
    /\ pc = "idle"
    /\ globals = Inputs
    /\ qc = RegisterCircuit(Inputs)
    /\ frame = NoFrame
    /\ ret = None
    /\ n = 0 /\ dist = <<>> /\ a = 0 /\ b = 0 /\ m = 0
    /\ F = <<>> /\ T = <<>> /\ P = <<>>
    /\ psi = <<>>
    /\ counts = <<>>
    /\ state = NoState

GRAVars == <<n, dist, a, b, m, F, T, P, psi, counts>>

BetweenCalls ==
    nb = "main" /\ pc \in {"idle", "ba_returned", "kwa_returned", "angle_returned"}

\* BitTest with the step 1/2**i left out of the comparison
BitTest_NoStep(x, total, i) == RLess(total, x)

\* the test `n > total + 1/2**i`
BitTest(x, total, i) == RLess(RAdd(total, Frac(1, 2^i)), x)

\* AddBit with 2*i written for 2**i
AddBit_Times(total, bit, i) == RAdd(total, Frac(bit, 2 * i))

\* `total += bit/2**i`
AddBit(total, bit, i) == RAdd(total, Frac(bit, 2^i))

\* binary_approx(n, k) is entered: a = [], total = 0, nothing returned yet
BA_Call(x, k) ==
    /\ BetweenCalls
    /\ frame' = [fn |-> "binary_approx", n |-> x, k |-> k, i |-> 1,
                 a |-> <<>>, total |-> RZero]
    /\ ret' = None
    /\ pc' = "ba_loop"
    /\ UNCHANGED <<nb, qc, globals, state>>
    /\ UNCHANGED GRAVars

\* one pass of `for i in range(1, k+1)`
BA_Pass ==
    /\ nb = "main"
    /\ pc = "ba_loop"
    /\ frame.i <= frame.k
    /\ LET bit == IF BitTest(frame.n, frame.total, frame.i) THEN 1 ELSE 0
       IN  frame' = [frame EXCEPT !.a = Append(@, bit),
                                  !.total = AddBit(@, bit, frame.i),
                                  !.i = @ + 1]
    /\ UNCHANGED <<nb, pc, qc, ret, globals, state>>
    /\ UNCHANGED GRAVars

\* `return (a, total)`; frame keeps the locals of the call that returned
BA_Return ==
    /\ nb = "main"
    /\ pc = "ba_loop"
    /\ frame.i > frame.k
    /\ ret' = <<frame.a, frame.total>>
    /\ pc' = "ba_returned"
    /\ UNCHANGED <<nb, qc, globals, frame, state>>
    /\ UNCHANGED GRAVars

\* KWA with a first rotation emitted on the notebook's circuit
KWA_Emits(circuit, mu, sigma, k, N) ==
    [qc |-> [circuit EXCEPT !.gates = Append(@, [kind |-> "rx", tgt |-> <<0>>])],
     ret |-> None]

\* what the body of KWA does to the circuit and what it returns: it is a docstring
KWA(circuit, mu, sigma, k, N) == [qc |-> circuit, ret |-> None]

KWA_Call(mu, sigma, k, N) ==
    /\ BetweenCalls
    /\ frame' = [fn |-> "KWA", mu |-> mu, sigma |-> sigma, k |-> k, N |-> N]
    /\ qc' = KWA(qc, mu, sigma, k, N).qc
    /\ ret' = KWA(qc, mu, sigma, k, N).ret
    /\ pc' = "kwa_returned"
    /\ UNCHANGED <<nb, globals, state>>
    /\ UNCHANGED GRAVars

-----------------------------------------------------------------------------
(* main.ipynb: f and angle.  sigma is [base, scale]: scale times the sigma  *)
(* for which exp(-1/sigma^2) = 1/base, so that a term of f is the rational  *)
(* base^(-e), e = (j - mu)^2/scale^2; a sum is kept as num / base^exp.      *)

\* the values exp(-1/sigma^2) = 1/base of the sigma angle is called with
Bases == {2}
Half == <<1, 2>>

\* (j - mu)**2 / float(sigma**2), in units of 1/sigma^2 of the unscaled sigma
Exponent(j, mu, sigma) ==
    LET dd == RSub(<<j, 1>>, mu)
    IN  RDiv(RMul(dd, dd), RMul(sigma.scale, sigma.scale))

\* np.arange(-n, n+1, 1)
Arange(nn) == [k \in 1..(2 * nn + 1) |-> k - nn - 1]

RECURSIVE MaxOf(_, _)
MaxOf(es, k) ==
    IF k > Len(es) THEN 0
    ELSE LET r == MaxOf(es, k + 1) IN IF es[k] > r THEN es[k] ELSE r

RECURSIVE PowerSum(_, _, _, _)
\* sum over the terms k.. of base^(E - e)
PowerSum(es, base, E, k) ==
    IF k > Len(es) THEN 0 ELSE base^(E - es[k]) + PowerSum(es, base, E, k + 1)

\* np.sum(np.exp(-(np.arange(-n, n+1, 1) - mu)**2 / float(sigma**2)))
f(mu, sigma, nn) ==
    LET es == [k \in 1..(2 * nn + 1) |-> Exponent(Arange(nn)[k], mu, sigma)[1]]
        E  == MaxOf(es, 1)
    IN  [num |-> PowerSum(es, sigma.base, E, 1), exp |-> E, base |-> sigma.base]

Min(x, y) == IF x < y THEN x ELSE y

\* x / y for two sums of the same base
SumRatio(x, y) ==
    LET e == Min(x.exp, y.exp)
    IN  Frac(x.num * x.base^(y.exp - e), y.num * y.base^(x.exp - e))

\* f(mu/2, sigma/2, n) / f(mu, sigma, n)
AngleRatio(mu, sigma, nn) ==
    SumRatio(f(RMul(mu, Half), [sigma EXCEPT !.scale = RMul(@, Half)], nn),
             f(mu, sigma, nn))

\* np.arccos(math.sqrt(f(mu/2, sigma/2, n) / f(mu, sigma, n)))
angle(mu, sigma, nn) == ArcCosSqrt(AngleRatio(mu, sigma, nn))

\* a call angle(mu, sigma, n) with an integer mu
Angle_Call(mu, base, nn) ==
    /\ BetweenCalls
    /\ (2 * nn + Abs(mu)) * (2 * nn + Abs(mu)) <= MaxExp
    /\ LET sigma == [base |-> base, scale |-> ROne]
       IN  /\ frame' = [fn |-> "angle", mu |-> <<mu, 1>>, sigma |-> sigma, n |-> nn]
           /\ ret' = angle(<<mu, 1>>, sigma, nn)
    /\ pc' = "angle_returned"
    /\ UNCHANGED <<nb, qc, globals, state>>
    /\ UNCHANGED GRAVars

-----------------------------------------------------------------------------
(* main.ipynb: the 4-qubit circuit cell and the statevector cell.  An       *)
(* amplitude is c[1] + c[2]*z + c[3]*z^2 + c[4]*z^3 with z = exp(i*pi/4),   *)
(* z^4 = -1, integer c, times 2^(-h/2) for the h Hadamard gates applied;    *)
(* 1, z, z^2, z^3 are independent over the rationals, so an amplitude is 0 *)
(* exactly when its four coefficients are.                                 *)

\* pi/4 = arccos(sqrt(1/2))
PiOver4 == [mult |-> 1, cos2 |-> <<1, 2>>]

H(q) == Gate("h", NoAngle, <<>>, <<q>>)
CX(c, t) == Gate("cx", NoAngle, <<c>>, <<t>>)
Barrier == Gate("barrier", NoAngle, <<>>, <<>>)

\* for qubit in range(4): qc.h(qubit)
HLayer == [q \in 1..4 |-> H(q - 1)]
\* qc.cnot(0, 1); qc.cnot(1, 2); qc.cnot(2, 3)
Ladder == <<CX(0, 1), CX(1, 2), CX(2, 3)>>
\* Unladder in the order of the ladder
Unladder_SameOrder == <<CX(0, 1), CX(1, 2), CX(2, 3)>>
\* qc.cnot(2,3); qc.cnot(1,2); qc.cnot(0,1)
Unladder == <<CX(2, 3), CX(1, 2), CX(0, 1)>>

\* qc = QuantumCircuit(4, 3) and the gates of the cell
Circuit4 ==
    [qubits |-> 4, clbits |-> 3,
     gates |-> HLayer \o <<Barrier>> \o Ladder \o <<Gate("rz", PiOver4, <<>>, <<3>>)>>
               \o Unladder \o <<Barrier>> \o HLayer]

AmpZero == <<0, 0, 0, 0>>
AmpOne == <<1, 0, 0, 0>>
AmpAdd(x, y) == [j \in 1..4 |-> x[j] + y[j]]
AmpNeg(x) == [j \in 1..4 |-> -x[j]]
\* x * z
TimesZ(x) == <<-x[4], x[1], x[2], x[3]>>
RECURSIVE TimesZPower(_, _)
TimesZPower(x, e) == IF e = 0 THEN x ELSE TimesZPower(TimesZ(x), e - 1)

\* the angle theta in units of pi/4
QuarterTurns(theta) == IF theta.cos2 = <<1, 2>> THEN theta.mult ELSE 0

\* the amplitude of basis state x after gate g; s[y + 1] is that of y before it.
\* h is sqrt(2) times the Hadamard gate; rz(theta) is diag(1, exp(i*theta)), the
\* matrix the recorded statevector was computed with
GateAmp(s, g, x) ==
    CASE g.kind = "h" ->
            LET t == g.tgt[1]
                zero == IF Bit(x, t) = 0 THEN x ELSE Flip(x, t)
                one  == Flip(zero, t)
            IN  IF x = zero THEN AmpAdd(s[zero + 1], s[one + 1])
                ELSE AmpAdd(s[zero + 1], AmpNeg(s[one + 1]))
      [] g.kind = "cx" ->
            IF Bit(x, g.ctrl[1]) = 1 THEN s[Flip(x, g.tgt[1]) + 1] ELSE s[x + 1]
      [] g.kind = "rz" ->
            IF Bit(x, g.tgt[1]) = 1 THEN TimesZPower(s[x + 1], QuarterTurns(g.theta) % 8)
            ELSE s[x + 1]
      [] OTHER -> s[x + 1]

RECURSIVE AmpsFrom(_, _, _)
AmpsFrom(s, g, x) ==
    IF x >= Len(s) THEN <<>> ELSE <<GateAmp(s, g, x)>> \o AmpsFrom(s, g, x + 1)

RECURSIVE SimulateFrom(_, _, _)
SimulateFrom(s, gates, k) ==
    IF k > Len(gates) THEN s
    ELSE SimulateFrom(AmpsFrom(s, gates[k], 0), gates, k + 1)

IsH(g) == g.kind = "h"

\* execute(qc, backend).result().get_statevector(), from the all-zero state
Statevector(c) ==
    [h   |-> Len(SelectSeq(c.gates, IsH)),
     amp |-> SimulateFrom([x \in 1..(2^(c.qubits)) |-> IF x = 1 THEN AmpOne ELSE AmpZero],
                          c.gates, 1)]

\* the cell that rebinds qc to the 4-qubit circuit
Circuit_Cell ==
    /\ BetweenCalls
    /\ qc' = Circuit4
    /\ pc' = "circuit_built"
    /\ UNCHANGED <<nb, ret, globals, frame, state>>
    /\ UNCHANGED GRAVars

\* the cell that runs qc on the statevector simulator and prints the state
Statevector_Cell ==
    /\ nb = "main"
    /\ pc = "circuit_built"
    /\ state' = Statevector(qc)
    /\ pc' = "state_printed"
    /\ UNCHANGED <<nb, qc, ret, globals, frame>>
    /\ UNCHANGED GRAVars

-----------------------------------------------------------------------------
(* Helpers of the properties *)

\* entry i of level mm of a vector of GRA (both counted from 0, as in the code)
At(V, mm, i) == V[mm + 1][i + 1]

RECURSIVE CellSum(_)
CellSum(S) ==
    IF S = {} THEN 0
    ELSE LET x == CHOOSE y \in S : TRUE IN dist[x] + CellSum(S \ {x})

\* the mass of dist on [lo, hi], cell by cell
Mass(lo, hi) == Frac(CellSum({x \in DOMAIN dist : lo <= x /\ x < hi}), Resolution)

\* the ends of interval i of the 2^mm equal parts of [a, b]
IntervalLo(mm, i) == a + ((b - a) * i) \div 2^mm
IntervalHi(mm, i) == a + ((b - a) * (i + 1)) \div 2^mm
IntervalMid(mm, i) == a + ((b - a) * (2 * i + 1)) \div 2^(mm + 1)

GRAReturned == nb = "GRA" /\ pc = "returned"

\* C1: measuring the n qubits of the returned circuit gives outcome i with
\* probability mass(interval i of width (b-a)/2^n) / mass([a, b])
C1_OutcomeProbability ==
    (nb = "GRA" /\ pc = "measured") =>
        \A i \in 0..(2^n - 1) :
            counts[i] = RDiv(Mass(IntervalLo(n, i), IntervalHi(n, i)), Mass(a, b))

\* a measured 3-qubit circuit whose outcomes are not equally likely
C1_Witness ==
    /\ nb = "GRA" /\ pc = "measured" /\ n >= 3
    /\ \E i \in 0..(2^n - 1) : counts[i] # counts[0] /\ counts[i] # RZero

\* the gates of level mm: after the mm-th barrier, up to the next barrier or swap
LevelSegment(gates, mm) ==
    LET bars  == {k \in 1..Len(gates) : gates[k].kind = "barrier"}
        start == CHOOSE k \in bars : Cardinality({j \in bars : j <= k}) = mm
        stops == {k \in (start + 1)..Len(gates) : gates[k].kind \in {"barrier", "swap"}}
        stop  == IF stops = {} THEN Len(gates) + 1
                 ELSE CHOOSE k \in stops : \A j \in stops : k <= j
    IN  SubSeq(gates, start + 1, stop - 1)

RotationPositions(seg) == {k \in 1..Len(seg) : seg[k].kind = "mcrx"}
\* the index i of the rotation at position k: its rank among the rotations
RotationIndex(seg, k) == Cardinality({j \in RotationPositions(seg) : j < k})
\* whether an odd number of X gates on qubit q precede position k
XParity(seg, k, q) ==
    Cardinality({j \in 1..(k - 1) : seg[j].kind = "x" /\ seg[j].tgt[1] = q}) % 2
\* whether the rotation at position k acts when the controls start as c
ActiveAt(seg, k, c) ==
    \A x \in 1..Len(seg[k].ctrl) :
        (Bit(c, seg[k].ctrl[x]) + XParity(seg, k, seg[k].ctrl[x])) % 2 = 1
RECURSIVE PatternIndex(_, _, _)
\* sum over q < mm of bit(q) * 2^(mm-1-q)
PatternIndex(c, mm, q) ==
    IF q >= mm THEN 0 ELSE Bit(c, q) * 2^(mm - 1 - q) + PatternIndex(c, mm, q + 1)

\* C2: at every level 1 <= m <= n-1 and for every assignment of the control
\* qubits exactly one of the 2^m rotations is active, the one of index
\* sum bit(q)*2^(m-1-q); qubit m-j-1 is flipped at rotation i exactly when
\* bit j of i is 0
C2_ControlActivation ==
    GRAReturned =>
        \A mm \in 1..(n - 1) :
            LET seg == LevelSegment(qc.gates, mm)
                rot == RotationPositions(seg)
            IN  /\ Cardinality(rot) = 2^mm
                /\ \A k \in rot :
                      /\ seg[k].ctrl = [q \in 1..mm |-> q - 1]
                      /\ seg[k].tgt = <<mm>>
                      /\ seg[k].theta = Twice(At(T, mm, RotationIndex(seg, k)))
                      /\ \A j \in 0..(mm - 1) :
                            (XParity(seg, k, mm - j - 1) = 1)
                                <=> (Bit(RotationIndex(seg, k), j) = 0)
                /\ \A c \in 0..(2^mm - 1) :
                      {RotationIndex(seg, k) : k \in {j \in rot : ActiveAt(seg, j, c)}}
                          = {PatternIndex(c, mm, 0)}

\* a returned circuit with a level of two control qubits
C2_Witness ==
    GRAReturned /\ n >= 3
        /\ Cardinality(RotationPositions(LevelSegment(qc.gates, 2))) = 4

\* C3: F[m][i] is the mass of the left half of interval i of level m over the
\* mass of the interval, T[m][i] = arccos(sqrt(F[m][i])), cos^2(T[m][i]) = F[m][i]
C3_AngleEncoding ==
    nb = "GRA" =>
        \A mm \in 0..(Len(F) - 1) : \A i \in 0..(Len(F[mm + 1]) - 1) :
            /\ At(F, mm, i) = RDiv(Mass(IntervalLo(mm, i), IntervalMid(mm, i)),
                                   Mass(IntervalLo(mm, i), IntervalHi(mm, i)))
            /\ At(T, mm, i) = ArcCosSqrt(At(F, mm, i))
            /\ Cos2Half(Twice(At(T, mm, i))) = At(F, mm, i)

\* all levels computed, with an interval whose halves differ in mass
C3_Witness ==
    /\ nb = "GRA" /\ pc = "levels" /\ n >= 2 /\ Len(F) = n + 1
    /\ \E i \in 0..(2^n - 1) : At(F, n, i) # <<1, 2>>
    /\ At(F, 0, 0) # <<1, 2>>

\* n+1 levels, level mm of 2^mm entries
LevelsOf(V) == Len(V) = n + 1 /\ \A mm \in 0..n : Len(V[mm + 1]) = 2^mm

\* C5: GRA returns a pair (qc, P), qc of n qubits and n classical bits; F, T
\* and P have n+1 levels, level m of 2^m entries
C5_Shape ==
    GRAReturned =>
        /\ Len(ret) = 2
        /\ ret[1].qubits = n /\ ret[1].clbits = n
        /\ ret[2] = P
        /\ LevelsOf(F) /\ LevelsOf(T) /\ LevelsOf(P)

C5_Witness == GRAReturned /\ n >= 2 /\ Len(ret[2][n + 1]) = 2^n

RECURSIVE RowSum(_, _)
RowSum(row, k) == IF k > Len(row) THEN RZero ELSE RAdd(row[k], RowSum(row, k + 1))

\* C4: every level of P sums to 1 and P[n][i] is the probability of measuring
\* outcome i on the returned circuit
C4_ProbabilityVector ==
    (nb = "GRA" /\ pc = "measured") =>
        /\ \A mm \in 0..n : RowSum(P[mm + 1], 1) = ROne
        /\ \A i \in 0..(2^n - 1) : At(P, n, i) = counts[i]

\* the gates without their angles
Skeleton(gates) ==
    [k \in 1..Len(gates) |->
        [kind |-> gates[k].kind, ctrl |-> gates[k].ctrl, tgt |-> gates[k].tgt]]

RECURSIVE LevelsFrom(_, _, _)
LevelsFrom(TT, nn, mm) ==
    IF mm >= nn THEN <<>> ELSE LevelGates(TT[mm + 1], mm) \o LevelsFrom(TT, nn, mm + 1)

\* the gate sequence of a call GRA(nn, d, aa, bb) that returns
GatesOf(nn, d, aa, bb) ==
    LET TT == Tables(d, aa, bb, nn).T
    IN  <<FirstGate(TT)>> \o LevelsFrom(TT, nn, 1) \o SwapStage(nn)

\* the constant density 1/Resolution on [0, 2^(nn+1)]
Uniform(nn) == [x \in 0..(2^(nn + 1) - 1) |-> 1]

\* C10: for a fixed n the gate kinds, targets and controls are those of the
\* call with the uniform density on [0, 2^(n+1)], whatever dist, a and b are;
\* the same (n, dist, a, b) gives the same gates, angles included
C10_SkeletonIndependent ==
    GRAReturned =>
        /\ Skeleton(qc.gates) = Skeleton(GatesOf(n, Uniform(n), 0, 2^(n + 1)))
        /\ qc.gates = GatesOf(n, dist, a, b)

\* a returned 3-qubit circuit of a density that is not uniform, not from 0
C10_Witness ==
    /\ GRAReturned /\ n >= 3 /\ a # 0
    /\ qc.gates # GatesOf(n, Uniform(n), 0, 2^(n + 1))

BAReturned == nb = "main" /\ pc = "ba_returned"

\* floor(x * 2^k) for a rational x
FloorScaled(x, k) == (x[1] * 2^k) \div x[2]
\* the i-th digit of x after the binary point
BinaryDigit(x, i) == FloorScaled(x, i) % 2

\* C6: for n in [0,1) binary_approx returns the first k binary digits of n and
\* total = floor(n * 2^k) / 2^k, also when n is a multiple of 2^-k
C6_BinaryDigits ==
    (BAReturned /\ RLeq(RZero, frame.n) /\ RLess(frame.n, ROne)) =>
        /\ Len(ret[1]) = frame.k
        /\ \A i \in 1..frame.k : ret[1][i] = BinaryDigit(frame.n, i)
        /\ ret[2] = Frac(FloorScaled(frame.n, frame.k), 2^(frame.k))

RECURSIVE WeightedSum(_, _)
\* sum for i = k..Len(bits) of bits[i] / 2^i
WeightedSum(bits, k) ==
    IF k > Len(bits) THEN RZero
    ELSE RAdd(Frac(bits[k], 2^k), WeightedSum(bits, k + 1))

\* C7: binary_approx(n, k) returns (a, total), a of k elements each 0 or 1,
\* total = sum a[i-1] / 2^i, for every real n
C7_OutputFormat ==
    BAReturned =>
        /\ Len(ret) = 2
        /\ Len(ret[1]) = frame.k
        /\ \A i \in 1..Len(ret[1]) : ret[1][i] \in {0, 1}
        /\ ret[2] = WeightedSum(ret[1], 1)

\* a return of at least three bits, the third one set, for an n above 1
C7_Witness ==
    BAReturned /\ frame.k >= 3 /\ ret[1][3] = 1 /\ RLess(ROne, frame.n)

\* C8: for n in [0,1], 0 <= n - total <= 2^-k; the recorded run of
\* alpha = 0.11143872... with 6 bits returns [0,0,0,1,1,1] and 0.109375
C8_ApproximationBound ==
    BAReturned =>
        /\ (RLeq(RZero, frame.n) /\ RLeq(frame.n, ROne)) =>
              /\ RLeq(ret[2], frame.n)
              /\ RLeq(RSub(frame.n, ret[2]), Frac(1, 2^(frame.k)))
        /\ (frame.n = Alpha /\ frame.k = Precision) =>
              /\ ret[1] = <<0, 0, 0, 1, 1, 1>>
              /\ ret[2] = Frac(109375, 1000000)

\* the recorded run has returned
C8_Witness == BAReturned /\ frame.n = Alpha /\ frame.k = Precision /\ ret[2] # RZero

\* C9: a call of KWA returns None, emits no gate and leaves every global as it was
C9_KWAStub ==
    [][(pc' = "kwa_returned") =>
          /\ ret' = None
          /\ qc' = qc
          /\ globals' = globals
          /\ UNCHANGED <<nb, n, dist, a, b, m, F, T, P, psi, counts, state>>]_vars

\* KWA has returned, with arguments that are not the notebook's globals
C9_Witness ==
    /\ nb = "main" /\ pc = "kwa_returned" /\ frame.fn = "KWA"
    /\ frame.N # globals.N /\ frame.sigma # globals.sigma
    /\ qc = RegisterCircuit(Inputs)

\* some interval of some level 0..n has no mass
ZeroMassAt(mm) ==
    \E i \in 0..(2^mm - 1) : Mass(IntervalLo(mm, i), IntervalHi(mm, i)) = RZero
ZeroMassSomewhere == \E mm \in 0..n : ZeroMassAt(mm)

\* C11: when some dyadic interval of a level 0..n has zero mass, the division
\* fails in the pre-computation and GRA returns neither a circuit nor P, no
\* gate emitted; otherwise the pre-computation does not fail
C11_ZeroMassFails ==
    (nb = "GRA" /\ pc # "pre") =>
        /\ ZeroMassSomewhere <=> pc = "raised"
        /\ pc = "raised" => qc = NoCircuit /\ ret = None /\ counts = <<>>

\* a failed call whose only intervals without mass are at level n
C11_Witness ==
    /\ nb = "GRA" /\ pc = "raised" /\ n >= 2
    /\ \A mm \in 0..(n - 1) : ~ZeroMassAt(mm)
    /\ ZeroMassAt(n)

IsSwap(g) == g.kind = "swap"
\* the swaps of a gate sequence, in the order emitted
SwapsOf(gates) == SelectSeq(gates, IsSwap)

\* where the qubits end up: order[q + 1] is the qubit found at position q
RECURSIVE ApplySwaps(_, _, _)
ApplySwaps(order, sw, k) ==
    IF k > Len(sw) THEN order
    ELSE LET p1 == sw[k].tgt[1] + 1
             p2 == sw[k].tgt[2] + 1
         IN  ApplySwaps([order EXCEPT ![p1] = order[p2], ![p2] = order[p1]], sw, k + 1)

Identity(nn) == [q \in 1..nn |-> q - 1]
Reversed(nn) == [q \in 1..nn |-> nn - q]
\* the number of swaps qubit q takes part in
SwapsOn(sw, q) == Cardinality({k \in 1..Len(sw) : q \in {sw[k].tgt[1], sw[k].tgt[2]}})

\* C12: the final stage emits swap(i, n-1-i) exactly for i in 0..floor(n/2)-1
\* and so reverses the qubit order; a qubit is in at most one swap, the middle
\* qubit of an odd n in none; applied twice it restores the order; for n = 4
\* the swaps are swap(0,3) and swap(1,2)
C12_SwapReversal ==
    /\ GRAReturned =>
          LET sw == SwapsOf(qc.gates)
          IN  /\ sw = [i \in 1..(n \div 2) |-> Gate("swap", NoAngle, <<>>, <<i - 1, n - i>>)]
              /\ SubSeq(qc.gates, Len(qc.gates) - Len(sw) + 1, Len(qc.gates)) = sw
              /\ \A q \in 0..(n - 1) : SwapsOn(sw, q) <= 1
              /\ (n % 2 = 1) => SwapsOn(sw, (n - 1) \div 2) = 0
              /\ ApplySwaps(Identity(n), sw, 1) = Reversed(n)
              /\ ApplySwaps(ApplySwaps(Identity(n), sw, 1), sw, 1) = Identity(n)
    /\ SwapStage(4) = <<Gate("swap", NoAngle, <<>>, <<0, 3>>),
                        Gate("swap", NoAngle, <<>>, <<1, 2>>)>>

\* a returned circuit of an odd number of qubits that ends in a swap
C12_Witness ==
    GRAReturned /\ n = 3 /\ Len(SwapsOf(qc.gates)) = 1 /\ IsSwap(qc.gates[Len(qc.gates)])

\* the four bounds of pass (m, i), as lines 133-136 compute them from a and R = b - a
NumLB(mm, i) == a + ((b - a) \div 2^mm) * i
NumUB(mm, i) == NumLB(mm, i) + ((b - a) \div 2^(mm + 1))
DenLB(mm, i) == a + ((b - a) \div 2^mm) * i
DenUB(mm, i) == a + ((b - a) \div 2^mm) * (i + 1)

\* the pre-computation ran to its end
Precomputed == nb = "GRA" /\ pc \notin {"pre", "raised"}

\* C13: interval i of level m is the union of intervals 2i and 2i+1 of level
\* m+1 and the numerator interval of F[m][i] is interval 2i of level m+1, so
\* P[m][i] = P[m+1][2i] + P[m+1][2i+1] and F[m][i] * P[m][i] = P[m+1][2i];
\* every level of P sums to P[0][0], the mass of dist on [a, b]
C13_BisectionConsistency ==
    Precomputed =>
        /\ \A mm \in 0..(n - 1) : \A i \in 0..(2^mm - 1) :
              /\ DenLB(mm, i) = DenLB(mm + 1, 2 * i)
              /\ DenUB(mm + 1, 2 * i) = DenLB(mm + 1, 2 * i + 1)
              /\ DenUB(mm + 1, 2 * i + 1) = DenUB(mm, i)
              /\ NumLB(mm, i) = DenLB(mm + 1, 2 * i)
              /\ NumUB(mm, i) = DenUB(mm + 1, 2 * i)
              /\ At(P, mm, i) = RAdd(At(P, mm + 1, 2 * i), At(P, mm + 1, 2 * i + 1))
              /\ RMul(At(F, mm, i), At(P, mm, i)) = At(P, mm + 1, 2 * i)
        /\ At(P, 0, 0) = Mass(a, b)
        /\ \A mm \in 0..n : RowSum(P[mm + 1], 1) = At(P, 0, 0)

\* three levels below the top, halves of unequal mass, a range not from 0
C13_Witness ==
    /\ Precomputed /\ n >= 3 /\ a # 0
    /\ At(P, 1, 0) # At(P, 1, 1)
    /\ At(P, n, 0) # At(P, n, 2^n - 1)

\* an angle arccos(sqrt(f)) with f in [0, 1]: it lies in [0, pi/2]
InFirstQuadrant(t) ==
    t # NaN /\ t.mult = 1 /\ RLeq(RZero, t.cos2) /\ RLeq(t.cos2, ROne)

IsPrefix(s1, s2) == Len(s1) <= Len(s2) /\ SubSeq(s2, 1, Len(s1)) = s1

\* the order of the gates of a circuit with the levels 1..lv emitted
EmissionOrder(gates, lv) ==
    /\ Len(gates) >= 1
    /\ gates[1] = Gate("rx", Twice(At(T, 0, 0)), <<>>, <<0>>)
    /\ \A k \in 2..Len(gates) : gates[k].kind \in {"barrier", "x", "mcrx", "swap"}
    /\ Cardinality({k \in 1..Len(gates) : gates[k].kind = "barrier"}) = lv
    /\ (lv >= 1) => gates[2].kind = "barrier"
    /\ \A mm \in 1..lv :
          LET seg == LevelSegment(gates, mm)
              rot == RotationPositions(seg)
          IN  /\ \A k \in 1..Len(seg) : seg[k].kind \in {"x", "mcrx"}
              /\ Cardinality(rot) = 2^mm
              /\ \A k \in rot :
                    /\ seg[k].tgt = <<mm>>
                    /\ seg[k].theta = Twice(At(T, mm, RotationIndex(seg, k)))
                    /\ \A j \in 0..(mm - 1) :
                          (XParity(seg, k, mm - j - 1) = 1)
                              <=> (Bit(RotationIndex(seg, k), j) = 0)
    /\ \A k \in 1..Len(gates) : \A j \in 1..Len(gates) :
          (gates[k].kind = "swap" /\ gates[j].kind # "swap") => j < k

\* C15: gates are only appended; the first is the uncontrolled rx on qubit 0;
\* the levels follow in increasing m, each opened by exactly one barrier, its
\* rotations in increasing index i; every swap comes after the last rotation
C15_EmissionOrder ==
    [][(nb = "GRA" /\ pc' \in {"levels", "returned"}) =>
          /\ IsPrefix(qc.gates, qc'.gates)
          /\ Len(qc'.gates) > Len(qc.gates) \/ (pc' = "returned" /\ n = 1)
          /\ EmissionOrder(qc'.gates, m' - 1)]_vars

\* a returned circuit of two levels with rotations of different angles and a swap
C15_Witness ==
    /\ GRAReturned /\ n >= 3
    /\ EmissionOrder(qc.gates, 2)
    /\ LevelSegment(qc.gates, 2)[1].kind = "x"
    /\ Cardinality({At(T, 2, i) : i \in 0..3}) >= 3
    /\ IsSwap(qc.gates[Len(qc.gates)])

\* C16: the 4-qubit circuit run from the all-zero state leaves non-zero
\* amplitudes on the basis states 0000 and 1111 only; they are (1 + z)/2 and
\* (1 - z)/2, z = exp(i*pi/4), the two values the notebook printed
C16_OnlyEnds ==
    (nb = "main" /\ pc = "state_printed") =>
        /\ Len(state.amp) = 16
        /\ \A x \in 0..15 : (state.amp[x + 1] # AmpZero) <=> (x \in {0, 15})
        /\ state.h = 8
        /\ state.amp[1] = <<8, 8, 0, 0>>
        /\ state.amp[16] = <<8, -8, 0, 0>>

\* the statevector cell ran on the 4-qubit circuit
C16_Witness ==
    /\ nb = "main" /\ pc = "state_printed" /\ qc = Circuit4
    /\ state.amp[1] # AmpZero /\ state.amp[16] # AmpZero /\ state.amp[1] # state.amp[16]

AngleReturned == nb = "main" /\ pc = "angle_returned"

\* the integers whose terms the truncated numerator and denominator sum over
NumeratorPoints(nn) == {2 * j : j \in (-nn)..nn}
DenominatorPoints(nn) == (-nn)..nn

\* C17: every term of the truncated numerator f(mu/2, sigma/2, n) is a term of
\* the truncated denominator f(mu, sigma, n), the ratio lies in (0, 1] and the
\* arccos is defined
C17_RatioInUnitInterval ==
    AngleReturned =>
        /\ NumeratorPoints(frame.n) \subseteq DenominatorPoints(frame.n)
        /\ \A j \in (-frame.n)..frame.n :
              Exponent(j, RMul(frame.mu, Half), [frame.sigma EXCEPT !.scale = Half])
                  = <<(2 * j - frame.mu[1]) * (2 * j - frame.mu[1]), 1>>
        /\ RLess(RZero, AngleRatio(frame.mu, frame.sigma, frame.n))
        /\ RLeq(AngleRatio(frame.mu, frame.sigma, frame.n), ROne)
        /\ ret # NaN

-----------------------------------------------------------------------------

Init == InitGRA \/ InitMain

Next ==
    \/ GRA_Precompute
    \/ GRA_Construct
    \/ GRA_Level
    \/ GRA_Return
    \/ Demo_Measure
    \/ \E x \in RealArgs, k \in 0..MaxK : BA_Call(x, k)
    \/ BA_Call(Alpha, Precision)
    \/ BA_Pass
    \/ BA_Return
    \/ \E mu \in 0..1, sigma \in 1..2, k \in 1..MaxK, N \in 1..MaxN : KWA_Call(mu, sigma, k, N)
    \/ \E mu \in (-MaxMu)..MaxMu, base \in Bases, nn \in 0..MaxTerms : Angle_Call(mu, base, nn)
    \/ Circuit_Cell
    \/ Statevector_Cell

Spec == Init /\ [][Next]_vars

=============================================================================
